---- MODULE Spec2Model ----
\* Model of malloc_buf (src/src/lib.rs): Malloc<T>, an owning handle over a
\* malloc'd buffer.  Memory is a flat byte-addressed store; the element type
\* T of Malloc<[T]> is taken to be one byte wide, so element i of a slice at
\* p lives at address p + i.
EXTENDS Integers, Sequences, FiniteSets

\* ---------------------------------------------------------------- bounds
MaxAllocs == 2      \* allocations the caller makes in one run
MaxHeap == 3        \* addresses malloc hands out in one run
MaxHandles == 2     \* handles constructed in one run
MaxStrLen == 4      \* longest byte string (before its terminator) in SpecStr

\* ------------------------------------------------------------- constants
NULL == 0
DUMMY_PTR == 1
HeapBase == DUMMY_PTR + 1

\* Bytes the caller stores in the main specification: NUL, 'A', and a lone
\* continuation byte (malformed UTF-8 on its own).
MainBytes == {0, 65, 128}

\* Bytes used for the text specification, covering the classes the UTF-8
\* validator distinguishes: NUL, ASCII, the three continuation ranges
\* (0x80, 0x90, 0xA0), the overlong lead 0xC0, the leads of 2-, 3- and 4-byte
\* sequences with their special cases (0xE0, 0xED, 0xF0, 0xF4) and the
\* out-of-range lead 0xF5.
Utf8Bytes == {0, 65, 128, 144, 160, 192, 194, 224, 225, 237, 240, 244, 245}

Min(a, b) == IF a < b THEN a ELSE b
Max(a, b) == IF a > b THEN a ELSE b

SeqsUpTo(S, n) == UNION {[1..k -> S] : k \in 0..n}

VARIABLES
    mem,        \* address -> byte, for every address of a live allocation
    allocs,     \* base address -> [size, state] of every allocation made
    brk,        \* next address malloc hands out (addresses are not reused)
    handles,    \* every Malloc<T> value constructed, in construction order
    freeCalls,  \* the arguments of libc::free, in call order
    last        \* the last operation and what it returned

vars == <<mem, allocs, brk, handles, freeCalls, last>>

Bases == DOMAIN allocs

NoOp == [op |-> "none", h |-> 0, p |-> NULL, n |-> 0, res |-> "none",
         view |-> <<>>, valid_up_to |-> 0, error_len |-> 0]

\* ------------------------------------------------------------ pure code

\* libc::strlen: the number of bytes before the first zero byte at or after p.
RECURSIVE strlen_from(_, _, _)
strlen_from(m, p, n) ==
    IF m[p + n] = 0 THEN n ELSE strlen_from(m, p, n + 1)

\* Mutant: the length counts the terminator.
strlen_with_nul(m, p) == strlen_from(m, p, 0) + 1

strlen(m, p) == strlen_from(m, p, 0)

\* slice::from_raw_parts(ptr, len) read through: the len elements at ptr.
from_raw_parts(m, ptr, len) == [i \in 1..len |-> m[ptr + (i - 1)]]

\* Mutant: the stored length is one short.
from_array_short(ptr, len) ==
    IF ptr = NULL /\ len = 0 THEN [some |-> TRUE, ptr |-> DUMMY_PTR, len |-> len]
    ELSE IF ptr = NULL THEN [some |-> FALSE, ptr |-> NULL, len |-> 0]
    ELSE [some |-> TRUE, ptr |-> ptr, len |-> IF len > 0 THEN len - 1 ELSE 0]

\* Mutant: every null pointer is refused, the empty array included.
from_array_no_null(ptr, len) ==
    IF ptr = NULL THEN [some |-> FALSE, ptr |-> NULL, len |-> 0]
    ELSE [some |-> TRUE, ptr |-> ptr, len |-> len]

\* Mutant: every empty array gets the sentinel, whatever the pointer.
from_array_empty_dummy(ptr, len) ==
    IF len = 0 THEN [some |-> TRUE, ptr |-> DUMMY_PTR, len |-> len]
    ELSE IF ptr = NULL THEN [some |-> FALSE, ptr |-> NULL, len |-> 0]
    ELSE [some |-> TRUE, ptr |-> ptr, len |-> len]

\* Malloc<[T]>::from_array: the fat pointer stored, or None.
from_array(ptr, len) ==
    IF ptr = NULL /\ len = 0 THEN [some |-> TRUE, ptr |-> DUMMY_PTR, len |-> len]
    ELSE IF ptr = NULL THEN [some |-> FALSE, ptr |-> NULL, len |-> 0]
    ELSE [some |-> TRUE, ptr |-> ptr, len |-> len]

\* core::str::utf8_char_width: the sequence length a first byte announces.
utf8_char_width(b) ==
    IF b < 128 THEN 1
    ELSE IF b < 194 THEN 0
    ELSE IF b < 224 THEN 2
    ELSE IF b < 240 THEN 3
    ELSE IF b < 245 THEN 4
    ELSE 0

\* `b as i8 >= -64` is false: b is a continuation byte 0x80..0xBF.
is_continuation(b) == b >= 128 /\ b <= 191

\* Mutant: any continuation byte may follow a 3-byte lead.
second_of_3_any(first, b) == is_continuation(b)

\* The (first, second) patterns accepted for a 3-byte sequence.
second_of_3(first, b) ==
    \/ first = 224 /\ b >= 160 /\ b <= 191
    \/ first >= 225 /\ first <= 236 /\ b >= 128 /\ b <= 191
    \/ first = 237 /\ b >= 128 /\ b <= 159
    \/ first >= 238 /\ first <= 239 /\ b >= 128 /\ b <= 191

\* The (first, second) patterns accepted for a 4-byte sequence.
second_of_4(first, b) ==
    \/ first = 240 /\ b >= 144 /\ b <= 191
    \/ first >= 241 /\ first <= 243 /\ b >= 128 /\ b <= 191
    \/ first = 244 /\ b >= 128 /\ b <= 143

Utf8Ok == [ok |-> TRUE, valid_up_to |-> 0, error_len |-> 0]

\* Utf8Error { valid_up_to, error_len }; error_len 0 stands for None
\* (the input ended inside a sequence).
Utf8Err(valid_up_to, error_len) ==
    [ok |-> FALSE, valid_up_to |-> valid_up_to, error_len |-> error_len]

\* core::str::from_utf8 (run_utf8_validation): index counts bytes from 0.
RECURSIVE run_utf8_validation(_, _)
run_utf8_validation(v, index) ==
    IF index >= Len(v) THEN Utf8Ok
    ELSE
      LET first == v[index + 1]
          w == utf8_char_width(first)
          has(j) == index + j < Len(v)
          byte(j) == v[index + j + 1]
      IN
      IF first < 128 THEN run_utf8_validation(v, index + 1)
      ELSE IF w = 2 THEN
             IF ~has(1) THEN Utf8Err(index, 0)
             ELSE IF ~is_continuation(byte(1)) THEN Utf8Err(index, 1)
             ELSE run_utf8_validation(v, index + 2)
      ELSE IF w = 3 THEN
             IF ~has(1) THEN Utf8Err(index, 0)
             ELSE IF ~second_of_3(first, byte(1)) THEN Utf8Err(index, 1)
             ELSE IF ~has(2) THEN Utf8Err(index, 0)
             ELSE IF ~is_continuation(byte(2)) THEN Utf8Err(index, 2)
             ELSE run_utf8_validation(v, index + 3)
      ELSE IF w = 4 THEN
             IF ~has(1) THEN Utf8Err(index, 0)
             ELSE IF ~second_of_4(first, byte(1)) THEN Utf8Err(index, 1)
             ELSE IF ~has(2) THEN Utf8Err(index, 0)
             ELSE IF ~is_continuation(byte(2)) THEN Utf8Err(index, 2)
             ELSE IF ~has(3) THEN Utf8Err(index, 0)
             ELSE IF ~is_continuation(byte(3)) THEN Utf8Err(index, 3)
             ELSE run_utf8_validation(v, index + 4)
      ELSE Utf8Err(index, 1)

from_utf8(v) == run_utf8_validation(v, 0)

\* Mutant: the stored pointer is the one the scan ended on.
from_c_str_end(m, ptr) ==
    LET len == strlen(m, ptr)
        slice == from_raw_parts(m, ptr, len)
        r == from_utf8(slice)
    IN [ok |-> r.ok, ptr |-> ptr + len, len |-> len,
        valid_up_to |-> r.valid_up_to, error_len |-> r.error_len]

\* Malloc<str>::from_c_str: the fat pointer stored, or the Utf8Error.
from_c_str(m, ptr) ==
    LET len == strlen(m, ptr)
        slice == from_raw_parts(m, ptr, len)
        r == from_utf8(slice)
    IN [ok |-> r.ok, ptr |-> ptr, len |-> len,
        valid_up_to |-> r.valid_up_to, error_len |-> r.error_len]

\* Deref::deref: the view behind the stored fat pointer.
deref(m, h) == from_raw_parts(m, h.ptr, h.len)

\* Mutant: free is called twice.
drop_twice(h) == IF h.ptr # DUMMY_PTR THEN <<h.ptr, h.ptr>> ELSE <<>>

\* Mutant: the sentinel is not checked for.
drop_unchecked(h) == <<h.ptr>>

\* Drop::drop: the addresses it passes to libc::free.
drop(h) == IF h.ptr # DUMMY_PTR THEN <<h.ptr>> ELSE <<>>

\* ---------------------------------------------------------------- state

\* A Malloc<T> value: the stored fat pointer (ptr, len) and whether it is
\* still in scope.  arg/argn record what the constructor was given and
\* freed what this handle's drop passed to libc::free.
Handle(kind, ptr, len, arg, argn) ==
    [kind |-> kind, ptr |-> ptr, len |-> len, live |-> TRUE,
     arg |-> arg, argn |-> argn, freed |-> <<>>]

Init ==
    /\ mem = <<>>
    /\ allocs = <<>>
    /\ brk = HeapBase
    /\ handles = <<>>
    /\ freeCalls = <<>>
    /\ last = NoOp

\* The caller obtains a buffer from malloc and fills it (tests, lines 94-97).
\* malloc(0) still returns a distinct address.
Malloc ==
    /\ Cardinality(Bases) < MaxAllocs
    /\ \E content \in SeqsUpTo(MainBytes, MaxHeap) :
        LET size == Len(content) IN
        /\ brk + Max(size, 1) <= HeapBase + MaxHeap
        /\ mem' = [a \in (DOMAIN mem) \cup (brk..(brk + size - 1)) |->
                     IF a \in DOMAIN mem THEN mem[a] ELSE content[a - brk + 1]]
        /\ allocs' = [b \in Bases \cup {brk} |->
                        IF b = brk THEN [size |-> size, state |-> "caller",
                                         rejected |-> FALSE]
                        ELSE allocs[b]]
        /\ brk' = brk + Max(size, 1)
    /\ last' = NoOp
    /\ UNCHANGED <<handles, freeCalls>>

CallerOwned == {b \in Bases : allocs[b].state = "caller"}

\* An allocation changes hands; `rejected` marks a buffer that from_c_str
\* turned down and that no constructor has taken since.
SetState(b, s) == [allocs EXCEPT ![b].state = s, ![b].rejected = FALSE]

Terminated(b) == \E i \in 0..(allocs[b].size - 1) : mem[b + i] = 0

\* The caller hands (ptr, len) to from_array: null with any length, or
\* a buffer it owns with a length the buffer covers.
FromArray ==
    /\ Len(handles) < MaxHandles
    /\ \E ptr \in {NULL} \cup CallerOwned :
       \E len \in 0..MaxHeap :
        /\ ptr # NULL => len <= allocs[ptr].size
        /\ LET r == from_array(ptr, len) IN
           IF r.some
           THEN /\ handles' = Append(handles, Handle("array", r.ptr, r.len, ptr, len))
                /\ allocs' = IF ptr # NULL THEN SetState(ptr, "owned") ELSE allocs
                /\ last' = [NoOp EXCEPT !.op = "from_array", !.h = Len(handles) + 1,
                                        !.p = ptr, !.n = len, !.res = "Some"]
           ELSE /\ UNCHANGED <<handles, allocs>>
                /\ last' = [NoOp EXCEPT !.op = "from_array", !.p = ptr, !.n = len,
                                        !.res = "None"]
    /\ UNCHANGED <<mem, brk, freeCalls>>

Live == {h \in 1..Len(handles) : handles[h].live}
Dropped == {h \in 1..Len(handles) : ~handles[h].live}

\* libc::free(p): the allocation at p is released ...
free(p) == IF p \in Bases THEN SetState(p, "freed") ELSE allocs

\* ... and its bytes are no longer there to read.
unmap(p) ==
    IF p \in Bases
    THEN [a \in (DOMAIN mem) \ (p..(p + allocs[p].size - 1)) |-> mem[a]]
    ELSE mem

\* Mutant: the failure path releases the buffer.
FromCStr_FreeOnErr ==
    /\ Len(handles) < MaxHandles
    /\ \E ptr \in {b \in CallerOwned : Terminated(b)} :
        LET r == from_c_str(mem, ptr) IN
        IF r.ok
        THEN /\ handles' = Append(handles, Handle("str", r.ptr, r.len, ptr, 0))
             /\ allocs' = SetState(ptr, "owned")
             /\ freeCalls' = freeCalls
             /\ mem' = mem
             /\ last' = [NoOp EXCEPT !.op = "from_c_str", !.h = Len(handles) + 1,
                                     !.p = ptr, !.res = "Ok"]
        ELSE /\ handles' = handles
             /\ allocs' = free(ptr)
             /\ mem' = unmap(ptr)
             /\ freeCalls' = Append(freeCalls, ptr)
             /\ last' = [NoOp EXCEPT !.op = "from_c_str", !.p = ptr, !.res = "Err",
                                     !.valid_up_to = r.valid_up_to,
                                     !.error_len = r.error_len]
    /\ brk' = brk

\* The caller hands a null-terminated buffer it owns to from_c_str.
FromCStr ==
    /\ Len(handles) < MaxHandles
    /\ \E ptr \in {b \in CallerOwned : Terminated(b)} :
        LET r == from_c_str(mem, ptr) IN
        IF r.ok
        THEN /\ handles' = Append(handles, Handle("str", r.ptr, r.len, ptr, 0))
             /\ allocs' = SetState(ptr, "owned")
             /\ last' = [NoOp EXCEPT !.op = "from_c_str", !.h = Len(handles) + 1,
                                     !.p = ptr, !.res = "Ok"]
        ELSE /\ handles' = handles
             /\ allocs' = [allocs EXCEPT ![ptr].rejected = TRUE]
             /\ last' = [NoOp EXCEPT !.op = "from_c_str", !.p = ptr, !.res = "Err",
                                     !.valid_up_to = r.valid_up_to,
                                     !.error_len = r.error_len]
    /\ UNCHANGED <<mem, brk, freeCalls>>

\* Mutant: the borrow is mutable and the caller stores a byte through it.
Deref_Write ==
    /\ \E h \in Live :
       \E i \in 0..(handles[h].len - 1) :
       \E v \in MainBytes :
        /\ handles[h].kind = "array"
        /\ mem' = [mem EXCEPT ![handles[h].ptr + i] = v]
        /\ last' = [NoOp EXCEPT !.op = "deref", !.h = h, !.res = "view",
                                !.view = deref(mem', handles[h])]
    /\ UNCHANGED <<allocs, brk, handles, freeCalls>>

\* A borrow of a live handle.
Deref ==
    /\ \E h \in Live :
        last' = [NoOp EXCEPT !.op = "deref", !.h = h, !.res = "view",
                             !.view = deref(mem, handles[h])]
    /\ UNCHANGED <<mem, allocs, brk, handles, freeCalls>>

\* A live handle goes out of scope; its destructor runs.
Drop ==
    /\ \E h \in Live :
        LET args == drop(handles[h]) IN
        /\ freeCalls' = freeCalls \o args
        /\ allocs' = IF args = <<>> THEN allocs ELSE free(args[1])
        /\ mem' = IF args = <<>> THEN mem ELSE unmap(args[1])
        /\ handles' = [handles EXCEPT ![h].live = FALSE, ![h].freed = args]
        /\ last' = [NoOp EXCEPT !.op = "drop", !.h = h]
    /\ brk' = brk

Next == Malloc \/ FromArray \/ FromCStr \/ Deref \/ Drop

Spec == Init /\ [][Next]_vars

\* The text specification: one null-terminated buffer, filled with any bytes
\* of Utf8Bytes, is handed to from_c_str, borrowed and dropped.
InitStr ==
    /\ \E s \in SeqsUpTo(Utf8Bytes, MaxStrLen) :
        LET content == Append(s, 0) IN
        /\ mem = [a \in HeapBase..(HeapBase + Len(content) - 1) |->
                    content[a - HeapBase + 1]]
        /\ allocs = [b \in {HeapBase} |->
                       [size |-> Len(content), state |-> "caller", rejected |-> FALSE]]
        /\ brk = HeapBase + Len(content)
    /\ handles = <<>>
    /\ freeCalls = <<>>
    /\ last = NoOp

NextStr == FromCStr \/ Deref \/ Drop

SpecStr == InitStr /\ [][NextStr]_vars

\* ------------------------------------------------------------ properties

Count(seq, a) == Cardinality({i \in 1..Len(seq) : seq[i] = a})
Range(seq) == {seq[i] : i \in 1..Len(seq)}
AllHandles == 1..Len(handles)

\* Handles built from a real allocation (the constructor was given a
\* non-null address).
Real == {h \in AllHandles : handles[h].arg # NULL}

RECURSIVE SumFreed(_)
SumFreed(n) == IF n = 0 THEN 0 ELSE Len(handles[n].freed) + SumFreed(n - 1)

\* C1: a handle built from a real allocation at p passes exactly p to free,
\* exactly once, when it is dropped (and nothing before); free is called by
\* drops only, and no address is passed to free more than once.
C1_FreeExactlyOnce ==
    /\ \A h \in Real :
        /\ handles[h].freed = (IF handles[h].live THEN <<>> ELSE <<handles[h].arg>>)
        /\ Count(freeCalls, handles[h].arg) = (IF handles[h].live THEN 0 ELSE 1)
    /\ \A a \in Range(freeCalls) : Count(freeCalls, a) = 1
    /\ Len(freeCalls) = SumFreed(Len(handles))

C1_Witness ==
    \E h1, h2 \in Real \cap Dropped :
        /\ h1 # h2
        /\ handles[h1].kind = "array" /\ handles[h1].len > 0
        /\ freeCalls = <<handles[h1].arg, handles[h2].arg>>

\* C2: the drop of a handle built by from_array(null, 0) passes nothing to
\* free, and the sentinel address is never an argument of free.
C2_SentinelNeverFreed ==
    /\ DUMMY_PTR \notin Range(freeCalls)
    /\ \A h \in AllHandles \ Real :
        /\ handles[h].ptr = DUMMY_PTR
        /\ handles[h].freed = <<>>
    /\ Len(freeCalls) = Cardinality(Real \cap Dropped)

C2_Witness ==
    /\ last.op = "drop"
    /\ handles[last.h].arg = NULL
    /\ \E h \in Real \cap Dropped : h < last.h

\* C3: every borrow of an array handle built by from_array(p, n) is a view of
\* exactly n elements, the i-th being the element stored at p + i; the view
\* of the handle built by from_array(null, 0) is empty.
C3_ArrayView ==
    (last.op = "deref" /\ handles[last.h].kind = "array") =>
        LET h == handles[last.h] IN
        /\ Len(last.view) = h.argn
        /\ \A i \in 0..(h.argn - 1) : last.view[i + 1] = mem[h.arg + i]
        /\ h.arg = NULL => last.view = <<>>

C3_Witness ==
    /\ last.op = "deref"
    /\ handles[last.h].kind = "array"
    /\ handles[last.h].argn = 2
    /\ last.view[1] # last.view[2]
    /\ \E g \in AllHandles : handles[g].arg = NULL

\* C4: from_array returns None exactly when the pointer is null and the
\* length is not 0, and the call that returns None calls free on nothing and
\* builds no handle.
C4_NoneIffNullNonzero ==
    /\ [](last.op = "from_array" =>
            /\ (last.res = "None") <=> (last.p = NULL /\ last.n > 0)
            /\ last.res = "Some" =>
                /\ last.h = Len(handles)
                /\ handles[last.h].arg = last.p
                /\ handles[last.h].argn = last.n)
    /\ [][last'.res = "None" => (freeCalls' = freeCalls /\ handles' = handles
                                  /\ allocs' = allocs)]_vars

C4_Witness ==
    /\ last.op = "from_array" /\ last.res = "None" /\ last.n > 0
    /\ \E h \in Real : handles[h].argn = 0

\* Well-formed UTF-8, stated by decoding: a byte string is well formed when
\* it splits into encodings of Unicode scalar values, each in its shortest
\* form.
Payload(b) == b - 128
IsTrail(b) == b \in 128..191

ScalarOf(c) ==
    IF Len(c) = 1 THEN c[1]
    ELSE IF Len(c) = 2 THEN (c[1] - 192) * 64 + Payload(c[2])
    ELSE IF Len(c) = 3 THEN (c[1] - 224) * 4096 + Payload(c[2]) * 64 + Payload(c[3])
    ELSE (c[1] - 240) * 262144 + Payload(c[2]) * 4096 + Payload(c[3]) * 64
         + Payload(c[4])

IsScalarEncoding(c) ==
    /\ Len(c) \in 1..4
    /\ \A j \in 2..Len(c) : IsTrail(c[j])
    /\ \/ Len(c) = 1 /\ c[1] \in 0..127
       \/ Len(c) = 2 /\ c[1] \in 192..223 /\ ScalarOf(c) \in 128..2047
       \/ Len(c) = 3 /\ c[1] \in 224..239
                     /\ ScalarOf(c) \in (2048..65535) \ (55296..57343)
       \/ Len(c) = 4 /\ c[1] \in 240..247 /\ ScalarOf(c) \in 65536..1114111

RECURSIVE WellFormedUtf8(_)
WellFormedUtf8(s) ==
    \/ s = <<>>
    \/ \E k \in 1..Min(4, Len(s)) :
        /\ IsScalarEncoding(SubSeq(s, 1, k))
        /\ WellFormedUtf8(SubSeq(s, k + 1, Len(s)))

\* The length of the longest well-formed prefix: the offset at which the
\* first malformed sequence starts.
LongestValidPrefix(s) ==
    CHOOSE k \in 0..Len(s) :
        /\ WellFormedUtf8(SubSeq(s, 1, k))
        /\ \A j \in (k + 1)..Len(s) : ~WellFormedUtf8(SubSeq(s, 1, j))

\* The bytes at p up to and excluding the first zero byte.
BytesBeforeNul(p) ==
    LET k == CHOOSE n \in 0..(allocs[p].size - 1) :
                 /\ mem[p + n] = 0
                 /\ \A j \in 0..(n - 1) : mem[p + j] # 0
    IN [i \in 1..k |-> mem[p + i - 1]]

\* C5: when the bytes before the first zero byte at p are well-formed UTF-8,
\* from_c_str(p) succeeds, and the text borrowed from the handle is exactly
\* those bytes.
C5_TextIsBytesBeforeNul ==
    /\ (last.op = "from_c_str" /\ WellFormedUtf8(BytesBeforeNul(last.p))) =>
        /\ last.res = "Ok"
        /\ handles[last.h].kind = "str"
        /\ deref(mem, handles[last.h]) = BytesBeforeNul(last.p)
    /\ (last.op = "deref" /\ handles[last.h].kind = "str") =>
        last.view = BytesBeforeNul(handles[last.h].arg)

C5_Witness ==
    /\ last.op = "deref"
    /\ handles[last.h].kind = "str"
    /\ Len(last.view) = 2
    /\ last.view[1] > 127
    /\ allocs[handles[last.h].arg].size > 3

\* C6: when the bytes before the terminator are malformed, from_c_str fails
\* with an error whose valid_up_to is the offset where the first malformed
\* sequence starts; it never fails on well-formed bytes.
C6_ErrorOffset ==
    last.op = "from_c_str" =>
        LET bytes == BytesBeforeNul(last.p) IN
        /\ ~WellFormedUtf8(bytes) =>
            /\ last.res = "Err"
            /\ last.valid_up_to = LongestValidPrefix(bytes)
        /\ last.res = "Err" => ~WellFormedUtf8(bytes)

C6_Witness ==
    /\ last.op = "from_c_str" /\ last.res = "Err"
    /\ last.valid_up_to = 2
    /\ last.error_len = 1
    /\ mem[last.p + 2] = 237

Rejected == {b \in Bases : allocs[b].rejected}

\* C7: a from_c_str call that fails on invalid UTF-8 builds no handle and
\* calls free on nothing; the buffer it was given stays live and in the
\* caller's hands: never an argument of free, never behind a handle.
C7_FailureKeepsAllocation ==
    /\ [](\A b \in Rejected :
            /\ allocs[b].state = "caller"
            /\ b \notin Range(freeCalls)
            /\ \A h \in AllHandles : handles[h].arg # b)
    /\ [](last.res = "Err" => last.p \in Rejected /\ last.h = 0)
    /\ [][last'.res = "Err" => (freeCalls' = freeCalls /\ handles' = handles)]_vars

C7_Witness ==
    /\ last.res = "Err"
    /\ \E b \in Bases : b # last.p /\ b \in Range(freeCalls)

\* C8 as claimed: every array handle of length 0 stores the sentinel pointer,
\* whatever pointer from_array was given, and its release passes nothing to
\* free.
C8_ZeroLengthAlwaysSentinel ==
    \A h \in AllHandles :
        (handles[h].kind = "array" /\ handles[h].len = 0) =>
            /\ handles[h].ptr = DUMMY_PTR
            /\ handles[h].freed = <<>>

\* C8 as amended: an array handle of length 0 built from the null pointer
\* stores the sentinel pointer and its release passes nothing to free; one
\* built from a non-null pointer p stores p and its release passes p to free.
C8_ZeroLengthSentinelIffNull ==
    \A h \in AllHandles :
        (handles[h].kind = "array" /\ handles[h].len = 0) =>
            /\ handles[h].arg = NULL =>
                /\ handles[h].ptr = DUMMY_PTR
                /\ handles[h].freed = <<>>
            /\ handles[h].arg # NULL =>
                /\ handles[h].ptr = handles[h].arg
                /\ ~handles[h].live => handles[h].freed = <<handles[h].arg>>

C8_Witness ==
    \E h1, h2 \in Dropped :
        /\ handles[h1].kind = "array" /\ handles[h1].len = 0
        /\ handles[h2].kind = "array" /\ handles[h2].len = 0
        /\ handles[h1].arg = NULL
        /\ handles[h2].arg # NULL

C10_LiveHandleOwnsLiveAllocation ==
    /\ [](\A h \in Live :
            handles[h].ptr # DUMMY_PTR =>
                /\ handles[h].ptr \in Bases
                /\ allocs[handles[h].ptr].state = "owned"
                /\ handles[h].ptr \notin Range(freeCalls)
                /\ \A g \in Live : g # h => handles[g].ptr # handles[h].ptr)
    /\ [][last'.op = "deref" =>
            UNCHANGED <<mem, allocs, brk, handles, freeCalls>>]_vars
    /\ [][\A b \in Bases :
            (allocs[b].state # "freed" /\ allocs'[b].state = "freed") =>
                /\ last'.op = "drop"
                /\ handles[last'.h].live /\ ~handles'[last'.h].live
                /\ handles[last'.h].ptr = b
                /\ freeCalls' = Append(freeCalls, b)]_vars

C10_Witness ==
    /\ last.op = "deref"
    /\ \E g \in Dropped : handles[g].freed # <<>>
    /\ handles[last.h].kind = "str"
    /\ handles[last.h].len > 0

====
